---- MODULE Spec2Model ----
(***************************************************************************)
(* Model of src/src/main.c: a Pebble application whose main window opens   *)
(* a two-level ActionMenu; choosing a leaf plays a vibration.              *)
(*                                                                         *)
(* The Pebble framework (window stack, ActionMenu navigation, vibes) is    *)
(* the environment.  It is modelled by what the SDK documents:             *)
(*   - window_stack_push loads the window (calls .load);                   *)
(*   - button events are delivered only inside app_event_loop;             *)
(*   - while an ActionMenu is open it is the top window, so SELECT and     *)
(*     BACK go to the menu, not to the main window's action bar;           *)
(*   - performing a leaf action calls its callback and closes the menu;    *)
(*   - popping the last window unloads it (calls .unload) and ends the     *)
(*     event loop; window_destroy unloads a window that is still loaded;   *)
(*   - allocations succeed.                                                *)
(***************************************************************************)
EXTENDS Integers, Sequences, FiniteSets, TLC

VARIABLES
  pc,              \* position of main(): the next statement to execute
  ip,              \* position inside init_action_menu (index of next statement)
  s_main_window,   \* main.c:22
  ui,              \* s_label_layer, s_action_bar, s_ellipsis_bitmap (main.c:23-26)
  s_current_type,  \* main.c:27
  s_action_menu,   \* main.c:29
  s_root_level,    \* main.c:30
  s_custom_level,  \* main.c:30
  segments,        \* static uint32_t segments[5] (main.c:39)
  heap,            \* the ActionMenuLevel objects owned by the framework
  menu,            \* the ActionMenu on screen, if any
  vibes,           \* haptic commands issued so far, in order
  activated,       \* action data of the leaves the framework activated, in order
  wrote,           \* indices of segments[] assigned by the latest handler call
  builds,          \* completed runs of init_action_menu
  destroys         \* calls of action_menu_hierarchy_destroy

vars == <<pc, ip, s_main_window, ui, s_current_type, s_action_menu,
          s_root_level, s_custom_level, segments, heap, menu, vibes,
          activated, wrote, builds, destroys>>

\* Bound on the number of leaf activations explored.
MaxSelections == 3

\***************************** VibrationType ********************************
VibrationTypeShort == 0
VibrationTypeLong == 1
VibrationTypeDouble == 2
VibrationTypeCustomShort == 3
VibrationTypeCustomMedium == 4
VibrationTypeCustomLong == 5

VibrationType ==
  {VibrationTypeShort, VibrationTypeLong, VibrationTypeDouble,
   VibrationTypeCustomShort, VibrationTypeCustomMedium, VibrationTypeCustomLong}

\* (void *)VibrationTypeX : an enumerator stored in the item's pointer-sized
\* action data.  Enumerators are small non-negative ints, which every pointer
\* width holds unchanged.
PtrFromEnum(v) == v

\* (VibrationType)action_menu_item_get_action_data(action) : the integer value
\* of the pointer, whether or not it names an enumerator.
EnumFromPtr(p) == p

NULL == 0

\* ARRAY_LENGTH(segments)
NumSegments == 5
SegIdx == 0 .. (NumSegments - 1)

\* static storage is zero-initialised
ZeroSegments == [i \in SegIdx |-> 0]

\****************************** Haptic service ******************************
NoDurations == <<>>

vibes_short_pulse == [cmd |-> "vibes_short_pulse", durations |-> NoDurations, num_segments |-> 0]
vibes_long_pulse == [cmd |-> "vibes_long_pulse", durations |-> NoDurations, num_segments |-> 0]
vibes_double_pulse == [cmd |-> "vibes_double_pulse", durations |-> NoDurations, num_segments |-> 0]

\* VibePattern pat = { .durations = segments, .num_segments = ARRAY_LENGTH(segments) }
vibes_enqueue_custom_pattern(durations, n) ==
  [cmd |-> "vibes_enqueue_custom_pattern", durations |-> durations, num_segments |-> n]

\*************************** Selection handler ******************************
\* One pass of the body of the for loop (main.c:47-52).
InnerSwitch(i, type, st) ==
  CASE type = VibrationTypeCustomShort ->
         [segments |-> [st.segments EXCEPT ![i] = i * 100],
          wrote |-> st.wrote \cup {i}]
    [] type = VibrationTypeCustomMedium ->
         [segments |-> [st.segments EXCEPT ![i] = i * 200],
          wrote |-> st.wrote \cup {i}]
    [] type = VibrationTypeCustomLong ->
         [segments |-> [st.segments EXCEPT ![i] = i * 300],
          wrote |-> st.wrote \cup {i}]
    [] OTHER -> st

RECURSIVE ForLoopStopsEarly(_, _, _)
ForLoopStopsEarly(i, type, st) ==
  IF i < 4 THEN ForLoopStopsEarly(i + 1, type, InnerSwitch(i, type, st)) ELSE st

\* for(int i = 0; i < 5; i++) { ... }
RECURSIVE ForLoop(_, _, _)
ForLoop(i, type, st) ==
  IF i < 5 THEN ForLoop(i + 1, type, InnerSwitch(i, type, st)) ELSE st

HandlerClearingBuffer(action_data, segs) ==
  LET type == EnumFromPtr(action_data) IN
  CASE type = VibrationTypeShort ->
         [type |-> type, segments |-> segs, wrote |-> {}, cmds |-> <<vibes_short_pulse>>]
    [] type = VibrationTypeLong ->
         [type |-> type, segments |-> segs, wrote |-> {}, cmds |-> <<vibes_long_pulse>>]
    [] type = VibrationTypeDouble ->
         [type |-> type, segments |-> segs, wrote |-> {}, cmds |-> <<vibes_double_pulse>>]
    [] OTHER ->
         LET st == ForLoop(0, type, [segments |-> segs, wrote |-> {}]) IN
         [type |-> type, segments |-> ZeroSegments, wrote |-> st.wrote,
          cmds |-> <<vibes_enqueue_custom_pattern(st.segments, NumSegments)>>]

HandlerDoublePulseTwice(action_data, segs) ==
  LET type == EnumFromPtr(action_data) IN
  CASE type = VibrationTypeShort ->
         [type |-> type, segments |-> segs, wrote |-> {}, cmds |-> <<vibes_short_pulse>>]
    [] type = VibrationTypeLong ->
         [type |-> type, segments |-> segs, wrote |-> {}, cmds |-> <<vibes_long_pulse>>]
    [] type = VibrationTypeDouble ->
         [type |-> type, segments |-> segs, wrote |-> {},
          cmds |-> <<vibes_short_pulse, vibes_short_pulse>>]
    [] OTHER ->
         LET st == ForLoop(0, type, [segments |-> segs, wrote |-> {}]) IN
         [type |-> type, segments |-> st.segments, wrote |-> st.wrote,
          cmds |-> <<vibes_enqueue_custom_pattern(st.segments, NumSegments)>>]

HandlerPresetScribbles(action_data, segs) ==
  LET type == EnumFromPtr(action_data)
      st == ForLoop(0, VibrationTypeCustomShort, [segments |-> segs, wrote |-> {}]) IN
  CASE type = VibrationTypeShort ->
         [type |-> type, segments |-> st.segments, wrote |-> st.wrote, cmds |-> <<vibes_short_pulse>>]
    [] type = VibrationTypeLong ->
         [type |-> type, segments |-> segs, wrote |-> {}, cmds |-> <<vibes_long_pulse>>]
    [] type = VibrationTypeDouble ->
         [type |-> type, segments |-> segs, wrote |-> {}, cmds |-> <<vibes_double_pulse>>]
    [] OTHER ->
         LET st2 == ForLoop(0, type, [segments |-> segs, wrote |-> {}]) IN
         [type |-> type, segments |-> st2.segments, wrote |-> st2.wrote,
          cmds |-> <<vibes_enqueue_custom_pattern(st2.segments, NumSegments)>>]

\* action_performed_callback: the value written to s_current_type, the
\* contents of segments[] on return, and the haptic commands issued.
action_performed_callback(action_data, segs) ==
  LET type == EnumFromPtr(action_data) IN
  CASE type = VibrationTypeShort ->
         [type |-> type, segments |-> segs, wrote |-> {}, cmds |-> <<vibes_short_pulse>>]
    [] type = VibrationTypeLong ->
         [type |-> type, segments |-> segs, wrote |-> {}, cmds |-> <<vibes_long_pulse>>]
    [] type = VibrationTypeDouble ->
         [type |-> type, segments |-> segs, wrote |-> {}, cmds |-> <<vibes_double_pulse>>]
    [] OTHER ->
         LET st == ForLoop(0, type, [segments |-> segs, wrote |-> {}]) IN
         [type |-> type, segments |-> st.segments, wrote |-> st.wrote,
          cmds |-> <<vibes_enqueue_custom_pattern(st.segments, NumSegments)>>]

\**************************** ActionMenu levels *****************************
LevelPtr == 1 .. 2

Unallocated == [status |-> "unallocated", max_items |-> 0, items |-> <<>>]
Freed == [status |-> "freed", max_items |-> 0, items |-> <<>>]

Live(h, level) == level \in LevelPtr /\ h[level].status = "live"

\* The address the allocator hands out next.
NewLevel(h) ==
  IF \E p \in LevelPtr : h[p].status = "unallocated"
  THEN CHOOSE p \in LevelPtr :
         /\ h[p].status = "unallocated"
         /\ \A q \in LevelPtr : q < p => h[q].status # "unallocated"
  ELSE NULL

\* action_menu_level_create(max_items)
action_menu_level_create(h, max_items) ==
  LET p == NewLevel(h) IN
  IF p = NULL THEN h
  ELSE [h EXCEPT ![p] = [status |-> "live", max_items |-> max_items, items |-> <<>>]]

\* Appending an item to a level; a full (or absent) level takes no item.
AddItem(h, level, item) ==
  IF Live(h, level) /\ Len(h[level].items) < h[level].max_items
  THEN [h EXCEPT ![level].items = Append(@, item)]
  ELSE h

\* action_menu_level_add_action(level, label, cb, action_data)
action_menu_level_add_action(h, level, label, action_data) ==
  AddItem(h, level, [label |-> label, is_leaf |-> TRUE,
                     action_data |-> action_data, next_level |-> NULL])

\* action_menu_level_add_child(level, child, label)
action_menu_level_add_child(h, level, child, label) ==
  AddItem(h, level, [label |-> label, is_leaf |-> FALSE,
                     action_data |-> NULL, next_level |-> child])

\* The child levels an interior item of the level points to.
Children(h, level) ==
  IF Live(h, level)
  THEN {h[level].items[k].next_level : k \in {j \in 1 .. Len(h[level].items) :
                                               ~h[level].items[j].is_leaf}}
  ELSE {}

\* The levels of the hierarchy below (and including) a root.
RECURSIVE Hierarchy(_, _, _)
Hierarchy(h, levels, depth) ==
  LET next == levels \cup UNION {Children(h, l) : l \in levels} IN
  IF depth = 0 \/ next = levels THEN levels ELSE Hierarchy(h, next, depth - 1)

\* action_menu_hierarchy_destroy(root, NULL, NULL)
action_menu_hierarchy_destroy(h, root) ==
  LET doomed == Hierarchy(h, {root} \cap LevelPtr, Cardinality(LevelPtr)) IN
  [p \in LevelPtr |-> IF p \in doomed THEN Freed ELSE h[p]]

\************************** init_action_menu ********************************
ProgramRootTooSmall ==
  << [op |-> "create", var |-> "root", level |-> "", label |-> "", n |-> 3],
     [op |-> "add_action", var |-> "", level |-> "root", label |-> "Short",
      n |-> PtrFromEnum(VibrationTypeShort)],
     [op |-> "add_action", var |-> "", level |-> "root", label |-> "Long",
      n |-> PtrFromEnum(VibrationTypeLong)],
     [op |-> "add_action", var |-> "", level |-> "root", label |-> "Double",
      n |-> PtrFromEnum(VibrationTypeDouble)],
     [op |-> "create", var |-> "custom", level |-> "", label |-> "", n |-> 3],
     [op |-> "add_child", var |-> "", level |-> "root", label |-> "Custom Pattern", n |-> 0],
     [op |-> "add_action", var |-> "", level |-> "custom", label |-> "Custom Fast",
      n |-> PtrFromEnum(VibrationTypeCustomShort)],
     [op |-> "add_action", var |-> "", level |-> "custom", label |-> "Custom Medium",
      n |-> PtrFromEnum(VibrationTypeCustomMedium)],
     [op |-> "add_action", var |-> "", level |-> "custom", label |-> "Custom Slow",
      n |-> PtrFromEnum(VibrationTypeCustomLong)] >>

ProgramDuplicateTag ==
  << [op |-> "create", var |-> "root", level |-> "", label |-> "", n |-> 4],
     [op |-> "add_action", var |-> "", level |-> "root", label |-> "Short",
      n |-> PtrFromEnum(VibrationTypeShort)],
     [op |-> "add_action", var |-> "", level |-> "root", label |-> "Long",
      n |-> PtrFromEnum(VibrationTypeLong)],
     [op |-> "add_action", var |-> "", level |-> "root", label |-> "Double",
      n |-> PtrFromEnum(VibrationTypeDouble)],
     [op |-> "create", var |-> "custom", level |-> "", label |-> "", n |-> 3],
     [op |-> "add_child", var |-> "", level |-> "root", label |-> "Custom Pattern", n |-> 0],
     [op |-> "add_action", var |-> "", level |-> "custom", label |-> "Custom Fast",
      n |-> PtrFromEnum(VibrationTypeCustomShort)],
     [op |-> "add_action", var |-> "", level |-> "custom", label |-> "Custom Medium",
      n |-> PtrFromEnum(VibrationTypeCustomMedium)],
     [op |-> "add_action", var |-> "", level |-> "custom", label |-> "Custom Slow",
      n |-> PtrFromEnum(VibrationTypeCustomMedium)] >>

ProgramUnknownTag ==
  << [op |-> "create", var |-> "root", level |-> "", label |-> "", n |-> 4],
     [op |-> "add_action", var |-> "", level |-> "root", label |-> "Short",
      n |-> PtrFromEnum(VibrationTypeShort)],
     [op |-> "add_action", var |-> "", level |-> "root", label |-> "Long",
      n |-> PtrFromEnum(VibrationTypeLong)],
     [op |-> "add_action", var |-> "", level |-> "root", label |-> "Double",
      n |-> PtrFromEnum(VibrationTypeDouble)],
     [op |-> "create", var |-> "custom", level |-> "", label |-> "", n |-> 3],
     [op |-> "add_child", var |-> "", level |-> "root", label |-> "Custom Pattern", n |-> 0],
     [op |-> "add_action", var |-> "", level |-> "custom", label |-> "Custom Fast",
      n |-> PtrFromEnum(VibrationTypeCustomShort)],
     [op |-> "add_action", var |-> "", level |-> "custom", label |-> "Custom Medium",
      n |-> PtrFromEnum(VibrationTypeCustomMedium)],
     [op |-> "add_action", var |-> "", level |-> "custom", label |-> "Custom Slow",
      n |-> PtrFromEnum(VibrationTypeCustomLong + 1)] >>

\* The statements of init_action_menu, in order (main.c:67-87).  n is the
\* capacity of a created level or the action data of an added action.
init_action_menu_body ==
  << [op |-> "create", var |-> "root", level |-> "", label |-> "", n |-> 4],
     [op |-> "add_action", var |-> "", level |-> "root", label |-> "Short",
      n |-> PtrFromEnum(VibrationTypeShort)],
     [op |-> "add_action", var |-> "", level |-> "root", label |-> "Long",
      n |-> PtrFromEnum(VibrationTypeLong)],
     [op |-> "add_action", var |-> "", level |-> "root", label |-> "Double",
      n |-> PtrFromEnum(VibrationTypeDouble)],
     [op |-> "create", var |-> "custom", level |-> "", label |-> "", n |-> 3],
     [op |-> "add_child", var |-> "", level |-> "root", label |-> "Custom Pattern", n |-> 0],
     [op |-> "add_action", var |-> "", level |-> "custom", label |-> "Custom Fast",
      n |-> PtrFromEnum(VibrationTypeCustomShort)],
     [op |-> "add_action", var |-> "", level |-> "custom", label |-> "Custom Medium",
      n |-> PtrFromEnum(VibrationTypeCustomMedium)],
     [op |-> "add_action", var |-> "", level |-> "custom", label |-> "Custom Slow",
      n |-> PtrFromEnum(VibrationTypeCustomLong)] >>

\* The value of the level variable a statement names.
LevelVar(name) == IF name = "root" THEN s_root_level ELSE s_custom_level

\* init_action_menu, one statement at a time; returning to init() after the last.
init_action_menu ==
  /\ pc = "init_action_menu"
  /\ ip \in 1 .. Len(init_action_menu_body)
  /\ LET stmt == init_action_menu_body[ip] IN
       CASE stmt.op = "create" ->
              /\ heap' = action_menu_level_create(heap, stmt.n)
              /\ s_root_level' = IF stmt.var = "root" THEN NewLevel(heap) ELSE s_root_level
              /\ s_custom_level' = IF stmt.var = "custom" THEN NewLevel(heap) ELSE s_custom_level
         [] stmt.op = "add_action" ->
              /\ heap' = action_menu_level_add_action(heap, LevelVar(stmt.level), stmt.label, stmt.n)
              /\ UNCHANGED <<s_root_level, s_custom_level>>
         [] stmt.op = "add_child" ->
              /\ heap' = action_menu_level_add_child(heap, LevelVar(stmt.level), s_custom_level, stmt.label)
              /\ UNCHANGED <<s_root_level, s_custom_level>>
  /\ IF ip = Len(init_action_menu_body)
     THEN /\ pc' = "app_event_loop"
          /\ ip' = 0
          /\ builds' = builds + 1
     ELSE /\ ip' = ip + 1
          /\ UNCHANGED <<pc, builds>>
  /\ UNCHANGED <<s_main_window, ui, s_current_type, s_action_menu, segments,
                 menu, vibes, activated, wrote, destroys>>

\******************************* Main window ********************************
NoWindow == [status |-> "null", handlers |-> FALSE, loaded |-> FALSE]
NoUi == [s_label_layer |-> "null", s_action_bar |-> "null", s_ellipsis_bitmap |-> "null"]
NoMenu == [open |-> FALSE, root |-> NULL, level |-> NULL]

\* window_load: the bitmap, the action bar with its click config provider, the label.
window_load(u) ==
  [s_label_layer |-> "live", s_action_bar |-> "live", s_ellipsis_bitmap |-> "live"]

\* window_unload: destroys the layers and bitmap, then the menu hierarchy.
window_unload ==
  /\ ui' = [s_label_layer |-> "destroyed", s_action_bar |-> "destroyed",
            s_ellipsis_bitmap |-> "destroyed"]
  /\ heap' = action_menu_hierarchy_destroy(heap, s_root_level)
  /\ destroys' = destroys + 1

\********************************** App *************************************
\* init(): s_main_window = window_create()
init_window_create ==
  /\ pc = "window_create"
  /\ s_main_window' = [status |-> "created", handlers |-> FALSE, loaded |-> FALSE]
  /\ pc' = "window_set_window_handlers"
  /\ UNCHANGED <<ip, ui, s_current_type, s_action_menu, s_root_level, s_custom_level,
                 segments, heap, menu, vibes, activated, wrote, builds, destroys>>

\* init(): window_set_window_handlers(s_main_window, {.load, .unload})
init_window_set_window_handlers ==
  /\ pc = "window_set_window_handlers"
  /\ s_main_window' = [s_main_window EXCEPT !.handlers = TRUE]
  /\ pc' = "window_stack_push"
  /\ UNCHANGED <<ip, ui, s_current_type, s_action_menu, s_root_level, s_custom_level,
                 segments, heap, menu, vibes, activated, wrote, builds, destroys>>

PushThenEventLoop ==
  /\ pc = "window_stack_push"
  /\ s_main_window' = [s_main_window EXCEPT !.loaded = TRUE]
  /\ ui' = window_load(ui)
  /\ pc' = "app_event_loop"
  /\ ip' = 0
  /\ UNCHANGED <<s_current_type, s_action_menu, s_root_level, s_custom_level,
                 segments, heap, menu, vibes, activated, wrote, builds, destroys>>

\* init(): window_stack_push(s_main_window, true); the window is loaded through
\* its registered .load handler, and init() goes on to call init_action_menu().
init_window_stack_push ==
  /\ pc = "window_stack_push"
  /\ s_main_window' = [s_main_window EXCEPT !.loaded = TRUE]
  /\ ui' = window_load(ui)
  /\ pc' = "init_action_menu"
  /\ ip' = 1
  /\ UNCHANGED <<s_current_type, s_action_menu, s_root_level, s_custom_level,
                 segments, heap, menu, vibes, activated, wrote, builds, destroys>>

\* The main window is on top of the window stack and receives the buttons.
MainWindowOnTop ==
  /\ pc = "app_event_loop"
  /\ s_main_window.loaded
  /\ ~menu.open

ClickHandlerResetsType ==
  /\ MainWindowOnTop
  /\ ui.s_action_bar = "live"
  /\ s_action_menu' = 1
  /\ menu' = [open |-> TRUE, root |-> s_root_level, level |-> s_root_level]
  /\ s_current_type' = VibrationTypeShort
  /\ UNCHANGED <<pc, ip, s_main_window, ui, s_root_level, s_custom_level,
                 segments, heap, vibes, activated, wrote, builds, destroys>>

\* select_click_handler: SELECT on the action bar opens the ActionMenu on
\* s_root_level.
select_click_handler ==
  /\ MainWindowOnTop
  /\ ui.s_action_bar = "live"
  /\ s_action_menu' = 1
  /\ menu' = [open |-> TRUE, root |-> s_root_level, level |-> s_root_level]
  /\ UNCHANGED <<pc, ip, s_main_window, ui, s_current_type, s_root_level, s_custom_level,
                 segments, heap, vibes, activated, wrote, builds, destroys>>

\* The items of the level the open menu shows.
ShownItems ==
  IF menu.open /\ Live(heap, menu.level) THEN heap[menu.level].items ELSE <<>>

\* SELECT on a leaf of the open menu: the framework calls the item's callback,
\* action_performed_callback, with the item, and closes the menu.
MenuPerformAction ==
  /\ pc = "app_event_loop"
  /\ menu.open
  /\ Len(activated) < MaxSelections
  /\ \E k \in 1 .. Len(ShownItems) :
       /\ ShownItems[k].is_leaf
       /\ LET r == action_performed_callback(ShownItems[k].action_data, segments) IN
            /\ s_current_type' = r.type
            /\ segments' = r.segments
            /\ wrote' = r.wrote
            /\ vibes' = vibes \o r.cmds
       /\ activated' = Append(activated, ShownItems[k].action_data)
  /\ menu' = NoMenu
  /\ UNCHANGED <<pc, ip, s_main_window, ui, s_action_menu, s_root_level, s_custom_level,
                 heap, builds, destroys>>

\* SELECT on an interior item of the open menu: the menu shows the child level.
MenuEnterChild ==
  /\ pc = "app_event_loop"
  /\ menu.open
  /\ \E k \in 1 .. Len(ShownItems) :
       /\ ~ShownItems[k].is_leaf
       /\ menu' = [menu EXCEPT !.level = ShownItems[k].next_level]
  /\ UNCHANGED <<pc, ip, s_main_window, ui, s_current_type, s_action_menu, s_root_level,
                 s_custom_level, segments, heap, vibes, activated, wrote, builds, destroys>>

\* BACK in the open menu: up one level, or out of the menu from its root level.
MenuBack ==
  /\ pc = "app_event_loop"
  /\ menu.open
  /\ menu' = IF menu.level = menu.root THEN NoMenu ELSE [menu EXCEPT !.level = menu.root]
  /\ UNCHANGED <<pc, ip, s_main_window, ui, s_current_type, s_action_menu, s_root_level,
                 s_custom_level, segments, heap, vibes, activated, wrote, builds, destroys>>

\* BACK on the main window: the window is popped and unloaded through its
\* registered .unload handler; with no window left the event loop returns.
MainWindowBack ==
  /\ MainWindowOnTop
  /\ s_main_window' = [s_main_window EXCEPT !.loaded = FALSE]
  /\ window_unload
  /\ pc' = "deinit"
  /\ UNCHANGED <<ip, s_current_type, s_action_menu, s_root_level, s_custom_level,
                 segments, menu, vibes, activated, wrote, builds>>

\* The system ends the application: the event loop returns with the main
\* window still loaded; whatever was on screen is gone.
AppTerminated ==
  /\ pc = "app_event_loop"
  /\ pc' = "deinit"
  /\ menu' = NoMenu
  /\ UNCHANGED <<ip, s_main_window, ui, s_current_type, s_action_menu, s_root_level,
                 s_custom_level, segments, heap, vibes, activated, wrote, builds, destroys>>

DeinitUnloadsAgain ==
  /\ pc = "deinit"
  /\ s_main_window' = [status |-> "destroyed", handlers |-> FALSE, loaded |-> FALSE]
  /\ window_unload
  /\ pc' = "done"
  /\ UNCHANGED <<ip, s_current_type, s_action_menu, s_root_level, s_custom_level,
                 segments, menu, vibes, activated, wrote, builds>>

\* deinit(): window_destroy(s_main_window); a window still loaded is unloaded.
deinit ==
  /\ pc = "deinit"
  /\ s_main_window' = [status |-> "destroyed", handlers |-> FALSE, loaded |-> FALSE]
  /\ IF s_main_window.loaded
     THEN window_unload
     ELSE UNCHANGED <<ui, heap, destroys>>
  /\ pc' = "done"
  /\ UNCHANGED <<ip, s_current_type, s_action_menu, s_root_level, s_custom_level,
                 segments, menu, vibes, activated, wrote, builds>>

\* The state at entry to main(): statics are zero-initialised.
Init ==
  /\ pc = "window_create"
  /\ ip = 0
  /\ s_main_window = NoWindow
  /\ ui = NoUi
  /\ s_current_type = VibrationTypeShort
  /\ s_action_menu = NULL
  /\ s_root_level = NULL
  /\ s_custom_level = NULL
  /\ segments = ZeroSegments
  /\ heap = [p \in LevelPtr |-> Unallocated]
  /\ menu = NoMenu
  /\ vibes = <<>>
  /\ activated = <<>>
  /\ wrote = {}
  /\ builds = 0
  /\ destroys = 0

Next ==
  \/ init_window_create
  \/ init_window_set_window_handlers
  \/ init_window_stack_push
  \/ init_action_menu
  \/ select_click_handler
  \/ MenuPerformAction
  \/ MenuEnterChild
  \/ MenuBack
  \/ MainWindowBack
  \/ AppTerminated
  \/ deinit

Spec == Init /\ [][Next]_vars

\****************************** Properties **********************************
\* init_action_menu has completed and the hierarchy has not been destroyed.
TreeBuilt == builds >= 1 /\ destroys = 0

Last(seq) == seq[Len(seq)]

IsCustom(c) == c.cmd = "vibes_enqueue_custom_pattern"

Pattern(a, b, c, d, e) == (0 :> a @@ 1 :> b @@ 2 :> c @@ 3 :> d @@ 4 :> e)

\* The leaves of a level, in menu order.
LeafData(level) ==
  IF Live(heap, level)
  THEN SelectSeq(heap[level].items, LAMBDA it : it.is_leaf)
  ELSE <<>>

\* The interior items of a level, in menu order.
InteriorItems(level) ==
  IF Live(heap, level)
  THEN SelectSeq(heap[level].items, LAMBDA it : ~it.is_leaf)
  ELSE <<>>

\* A step in which the framework activated one more leaf.
Activation == Len(activated') = Len(activated) + 1

\* C1: every activation of a leaf issues exactly one haptic command, one of the
\* four haptic calls, so after n selections exactly n commands were issued.
C1_OneCommandPerSelection ==
  /\ Len(vibes) = Len(activated)
  /\ \A k \in 1 .. Len(vibes) :
       vibes[k].cmd \in {"vibes_short_pulse", "vibes_long_pulse",
                         "vibes_double_pulse", "vibes_enqueue_custom_pattern"}

C1_Witness ==
  /\ Len(activated) >= 2
  /\ \E k \in 1 .. Len(activated) : activated[k] = PtrFromEnum(VibrationTypeDouble)
  /\ \E k \in 1 .. Len(activated) : activated[k] = PtrFromEnum(VibrationTypeCustomLong)

\* C2: the k-th selection, when it is of CustomShort, CustomMedium or
\* CustomLong, issues the custom pattern [0,100,200,300,400], [0,200,400,600,800]
\* or [0,300,600,900,1200] of length 5, whatever was selected before it.
C2_ExactPatterns ==
  \A k \in 1 .. Len(activated) :
    /\ activated[k] = PtrFromEnum(VibrationTypeCustomShort) =>
         /\ k \in DOMAIN vibes
         /\ vibes[k] = vibes_enqueue_custom_pattern(Pattern(0, 100, 200, 300, 400), 5)
    /\ activated[k] = PtrFromEnum(VibrationTypeCustomMedium) =>
         /\ k \in DOMAIN vibes
         /\ vibes[k] = vibes_enqueue_custom_pattern(Pattern(0, 200, 400, 600, 800), 5)
    /\ activated[k] = PtrFromEnum(VibrationTypeCustomLong) =>
         /\ k \in DOMAIN vibes
         /\ vibes[k] = vibes_enqueue_custom_pattern(Pattern(0, 300, 600, 900, 1200), 5)

C2_Witness ==
  \E k \in 2 .. Len(activated) :
    /\ activated[k - 1] = PtrFromEnum(VibrationTypeCustomLong)
    /\ activated[k] = PtrFromEnum(VibrationTypeCustomMedium)
    /\ k \in DOMAIN vibes
    /\ vibes[k].durations[4] = 800

\* C3: a selection of Short, Long or Double issues its own preset pulse, once,
\* issues no custom pattern and leaves segments[] as it was.
C3_PresetsOnly ==
  [][(Activation /\ EnumFromPtr(Last(activated')) \in
        {VibrationTypeShort, VibrationTypeLong, VibrationTypeDouble}) =>
       /\ segments' = segments
       /\ vibes' = Append(vibes,
            CASE EnumFromPtr(Last(activated')) = VibrationTypeShort -> vibes_short_pulse
              [] EnumFromPtr(Last(activated')) = VibrationTypeLong -> vibes_long_pulse
              [] OTHER -> vibes_double_pulse)]_vars

C3_Witness ==
  /\ Len(activated) >= 2
  /\ Last(activated) = PtrFromEnum(VibrationTypeShort)
  /\ Len(vibes) = Len(activated)
  /\ Last(vibes) = vibes_short_pulse
  /\ segments = Pattern(0, 100, 200, 300, 400)

\* C4: once built and until destroyed, the root level has exactly 4 entries
\* (3 leaves and the submenu) and the submenu exactly 3 leaves; no level ever
\* holds more entries than the capacity it was created with (4 and 3).
C4_TreeShape ==
  /\ \A p \in LevelPtr : Live(heap, p) => Len(heap[p].items) <= heap[p].max_items
  /\ Live(heap, s_root_level) => heap[s_root_level].max_items = 4
  /\ Live(heap, s_custom_level) => heap[s_custom_level].max_items = 3
  /\ TreeBuilt =>
       /\ Live(heap, s_root_level)
       /\ Live(heap, s_custom_level)
       /\ s_root_level # s_custom_level
       /\ Len(heap[s_root_level].items) = 4
       /\ Len(LeafData(s_root_level)) = 3
       /\ Len(InteriorItems(s_root_level)) = 1
       /\ InteriorItems(s_root_level)[1].label = "Custom Pattern"
       /\ InteriorItems(s_root_level)[1].next_level = s_custom_level
       /\ Len(heap[s_custom_level].items) = 3
       /\ Len(LeafData(s_custom_level)) = 3

C4_Witness ==
  /\ TreeBuilt
  /\ Len(activated) >= 2
  /\ menu.open
  /\ menu.level = s_custom_level
  /\ Len(heap[s_root_level].items) = 4

\* C5: in the built tree the leaves carry the 6 VibrationType tags, each tag on
\* exactly one leaf: Short, Long, Double at the root, CustomShort, CustomMedium,
\* CustomLong under the submenu.
C5_TagsOneToOne ==
  TreeBuilt =>
    LET leaves == LeafData(s_root_level) \o LeafData(s_custom_level) IN
    /\ Len(leaves) = 6
    /\ \A j, k \in 1 .. Len(leaves) : j # k => leaves[j].action_data # leaves[k].action_data
    /\ {EnumFromPtr(leaves[k].action_data) : k \in 1 .. Len(leaves)} = VibrationType
    /\ {EnumFromPtr(LeafData(s_root_level)[k].action_data) :
          k \in 1 .. Len(LeafData(s_root_level))} =
         {VibrationTypeShort, VibrationTypeLong, VibrationTypeDouble}
    /\ {EnumFromPtr(LeafData(s_custom_level)[k].action_data) :
          k \in 1 .. Len(LeafData(s_custom_level))} =
         {VibrationTypeCustomShort, VibrationTypeCustomMedium, VibrationTypeCustomLong}

C5_Witness ==
  /\ TreeBuilt
  /\ pc = "app_event_loop"
  /\ ~menu.open
  /\ Len(LeafData(s_custom_level)) = 3
  /\ LeafData(s_custom_level)[3].action_data = PtrFromEnum(VibrationTypeCustomLong)

\* C6: the tree is built exactly once, before the event loop; it is destroyed
\* at most once, only by window_unload as the application leaves the event
\* loop or deinitialises; between the two no step changes a level.
C6_BuiltOnceDestroyedOnce ==
  [][/\ builds' <= 1
     /\ destroys' <= 1
     /\ pc' \in {"app_event_loop", "deinit", "done"} => builds' = 1
     /\ builds' # builds => pc = "init_action_menu" /\ pc' = "app_event_loop"
     /\ destroys' # destroys =>
          /\ pc \in {"app_event_loop", "deinit"}
          /\ pc' \in {"deinit", "done"}
          /\ ui'.s_action_bar = "destroyed"
          /\ ~s_main_window'.loaded
     /\ heap' # heap => (pc = "init_action_menu" \/ destroys' = destroys + 1)
     /\ <<s_root_level, s_custom_level>>' # <<s_root_level, s_custom_level>> =>
          pc = "init_action_menu"]_vars

C6_Witness ==
  /\ pc = "done"
  /\ builds = 1
  /\ destroys = 1
  /\ Len(activated) >= 1
  /\ heap[s_root_level].status = "freed"

\* C7: every tag the handler receives is one of the 6 variants (the leaves of
\* the built tree carry no other), so whenever it issues a custom pattern it
\* has written all five segments in that same invocation.
C7_DispatchExhaustive ==
  /\ \A k \in 1 .. Len(activated) : EnumFromPtr(activated[k]) \in VibrationType
  /\ TreeBuilt =>
       \A p \in {s_root_level, s_custom_level} :
         \A k \in 1 .. Len(LeafData(p)) :
           EnumFromPtr(LeafData(p)[k].action_data) \in VibrationType
  /\ (vibes # <<>> /\ IsCustom(Last(vibes))) => wrote = SegIdx
  /\ (vibes # <<>> /\ ~IsCustom(Last(vibes))) => wrote = {}

C7_Witness ==
  /\ vibes # <<>>
  /\ IsCustom(Last(vibes))
  /\ wrote = SegIdx
  /\ Last(activated) = PtrFromEnum(VibrationTypeCustomShort)

\* The pattern of the latest custom command issued; zeros when there is none.
RECURSIVE LatestPattern(_)
LatestPattern(cmds) ==
  IF cmds = <<>> THEN ZeroSegments
  ELSE IF IsCustom(Last(cmds)) THEN Last(cmds).durations
  ELSE LatestPattern(SubSeq(cmds, 1, Len(cmds) - 1))

\* C8 as stated: a pattern is discarded once issued, so segments[] never holds
\* a pattern that was issued.
C8_PatternDiscarded ==
  \A k \in 1 .. Len(vibes) : IsCustom(vibes[k]) => segments # vibes[k].durations

\* C8 amended: segments[] is static and is not discarded; after the handler
\* returns it holds the pattern of the latest custom selection (zeros before
\* the first), through any later Short, Long or Double selection.
C8_PatternRetained ==
  segments = LatestPattern(vibes)

C8_Witness ==
  /\ Len(vibes) >= 2
  /\ IsCustom(vibes[Len(vibes) - 1])
  /\ ~IsCustom(Last(vibes))
  /\ segments = vibes[Len(vibes) - 1].durations
  /\ segments # ZeroSegments

\* C9: s_current_type changes only in the selection handler, which sets it to
\* the tag of the leaf just activated; every other step leaves it unchanged.
C9_CurrentTypeWrittenByHandler ==
  [][IF Activation
     THEN s_current_type' = EnumFromPtr(Last(activated'))
     ELSE s_current_type' = s_current_type]_vars

C9_Witness ==
  /\ activated # <<>>
  /\ Last(activated) = PtrFromEnum(VibrationTypeCustomLong)
  /\ s_current_type = VibrationTypeCustomLong
  /\ menu.open
  /\ menu.level = menu.root

\* C10: a menu is on screen only inside the event loop, opened on the root of
\* the completely built, not yet destroyed tree.
C10_MenuOnlyOnBuiltTree ==
  menu.open =>
    /\ pc = "app_event_loop"
    /\ builds = 1
    /\ destroys = 0
    /\ menu.root # NULL
    /\ menu.root = s_root_level
    /\ Live(heap, menu.root)
    /\ Live(heap, menu.level)
    /\ Len(heap[s_root_level].items) = 4
    /\ Live(heap, s_custom_level)
    /\ Len(heap[s_custom_level].items) = 3

C10_Witness ==
  /\ menu.open
  /\ menu.root = s_root_level
  /\ Live(heap, s_root_level)
  /\ Len(activated) = 1
  /\ ui.s_action_bar = "live"

====
